---------------------------- MODULE Spec2Model ----------------------------
(***************************************************************************)
(* Model of the route finder of src/main.py: build_graph_from_excel,       *)
(* dijkstra and the "Find Shortest Path" handler of main().                *)
(*                                                                         *)
(* Strings the code inspects (location names, owners, type tags, menu      *)
(* entries) are sequences of one-character strings, so that lower(),       *)
(* substring tests and split() are computed and not assumed.               *)
(*                                                                         *)
(* Times are exact rationals, held as integer numbers of ticks with        *)
(* Ticks ticks to the second; every speed of the code divides Ticks.  The  *)
(* coordinates of the dataset universe are chosen so that every            *)
(* straight-line distance is a whole number.  Binary floating point        *)
(* rounding of the Python floats is outside the model.                     *)
(***************************************************************************)
EXTENDS Integers, Sequences, FiniteSets, TLC

VARIABLES
    rows,           \* the records of "Realms Map Dataset.xlsx" on disk
    locations,      \* st.session_state.locations
    route_results,  \* st.session_state.route_results
    outcome,        \* what the last run of main() reported
    run             \* the locals of the last run that rebuilt the graph

vars == <<rows, locations, route_results, outcome, run>>

---------------------------------------------------------------------------
(* Bounds of the model *)

MaxRows == 3

---------------------------------------------------------------------------
(* Strings *)

UpperToLower ==
    [c \in {"H", "I", "P", "L", "T", "D", "U", "R"} |->
        CASE c = "H" -> "h" [] c = "I" -> "i" [] c = "P" -> "p"
          [] c = "L" -> "l" [] c = "T" -> "t" [] c = "D" -> "d"
          [] c = "U" -> "u" [] c = "R" -> "r"]

\* str.lower()
Lower(s) ==
    [i \in 1..Len(s) |-> IF s[i] \in DOMAIN UpperToLower THEN UpperToLower[s[i]] ELSE s[i]]

\* the positions (0-based) at which sub occurs in s
Occurrences(sub, s) ==
    {i \in 0..(Len(s) - Len(sub)) : SubSeq(s, i + 1, i + Len(sub)) = sub}

\* Python's  sub in s
StrIn(sub, s) == Occurrences(sub, s) # {}

Min(S) == CHOOSE x \in S : \A y \in S : x <= y

\* s.split(sep)[0]
SplitFirst(s, sep) ==
    IF StrIn(sep, s) THEN SubSeq(s, 1, Min(Occurrences(sep, s))) ELSE s

EndsWith(s, suffix) ==
    /\ Len(s) >= Len(suffix)
    /\ SubSeq(s, Len(s) - Len(suffix) + 1, Len(s)) = suffix

RECURSIVE Digits(_)
Digits(n) ==
    LET d == <<"0", "1", "2", "3", "4", "5", "6", "7", "8", "9">>
    IN  IF n < 10 THEN <<d[n + 1]>> ELSE Digits(n \div 10) \o <<d[(n % 10) + 1]>>

\* str(coord) of a tuple of two non-negative integers
StrOfCoord(p) ==
    <<"(">> \o Digits(p[1]) \o <<",", " ">> \o Digits(p[2]) \o <<")">>

\* lexicographic order of strings by code point, as sorted() uses
CodePoint(c) ==
    LET order == <<" ", "(", ")", ",", "0", "1", "2", "3", "4", "5", "6", "7",
                   "8", "9", "D", "H", "I", "L", "P", "R", "T", "U", "a", "b",
                   "c", "d", "e", "g", "h", "i", "l", "m", "n", "o", "u", "w", "y">>
    IN  CHOOSE i \in 1..Len(order) : order[i] = c

RECURSIVE StrLess(_, _)
StrLess(s, t) ==
    IF t = <<>> THEN FALSE
    ELSE IF s = <<>> THEN TRUE
    ELSE IF s[1] = t[1] THEN StrLess(Tail(s), Tail(t))
    ELSE CodePoint(s[1]) < CodePoint(t[1])

---------------------------------------------------------------------------
(* Distances and speeds *)

Abs(x) == IF x < 0 THEN -x ELSE x

\* the whole square root; exact on the perfect squares of the universe
ISqrt(n) == CHOOSE r \in 0..n : r * r <= n /\ (r + 1) * (r + 1) > n

euclidean_distance(p1, p2) ==
    ISqrt((p1[1] - p2[1]) * (p1[1] - p2[1]) + (p1[2] - p2[2]) * (p1[2] - p2[2]))

manhattan_distance(p1, p2) == Abs(p1[1] - p2[1]) + Abs(p1[2] - p2[2])

NormalSpeed == 8
IceSpeed == 72
WalkSpeed == 3

\* ticks per second: the least common multiple of the three speeds
Ticks == IceSpeed

\* distance / speed, in ticks
TravelTime(distance, speed) == (distance * Ticks) \div speed

---------------------------------------------------------------------------
(* The dataset: rows of the sheet "Tableau Data" *)

NaN == <<"nan">>                \* an empty cell, as pandas reads it

Str_H == <<"H">>
Str_hm == <<"h", "m">>
Str_d == <<"d">>
Str_o == <<"o">>
Str_D == <<"D">>
Str_R1 == <<"R", "1">>
Str_Town == <<"T", "o", "w", "n">>
Str_IceHighway == <<"I", "c", "e", " ", "H", "i", "g", "h", "w", "a", "y">>
Str_PublicLand == <<"P", "u", "b", "l", "i", "c", " ", "L", "a", "n", "d">>
Str_Unknown == <<"U", "n", "k", "n", "o", "w", "n">>

\* (Location, X, Z, Owner) of the places a row may describe: three places
\* at whole distances 8, 6 and 10 from each other, "d" recorded a second
\* time at the coordinates of "H", and "hm" recorded with no owner
Places ==
    { <<Str_H, 0, 0, Str_PublicLand>>,
      <<Str_hm, 8, 0, Str_PublicLand>>,
      <<Str_hm, 8, 0, NaN>>,
      <<Str_d, 8, 6, Str_o>>,
      <<Str_d, 0, 0, Str_D>> }

\* (Type, Path) of a row: a place on the rail path R1, or an ice highway
\* endpoint on no path
Kinds == { <<Str_Town, Str_R1>>, <<Str_IceHighway, NaN>> }

RowUniverse ==
    { [Location |-> pl[1], X |-> pl[2], Z |-> pl[3], Owner |-> pl[4],
       Type |-> ki[1], Path |-> ki[2]] : pl \in Places, ki \in Kinds }

Datasets == UNION { [1..n -> RowUniverse] : n \in 0..MaxRows }

---------------------------------------------------------------------------
(* build_graph_from_excel *)

Modes == {"normal", "ice", "walk"}

\* graph[p].append(e) on a defaultdict(list)
GraphAppend(graph, p, e) ==
    IF p \in DOMAIN graph
    THEN [graph EXCEPT ![p] = Append(@, e)]
    ELSE graph @@ (p :> <<e>>)

\* graph.get(node, [])
GraphGet(graph, node) == IF node \in DOMAIN graph THEN graph[node] ELSE <<>>

\* AddBoth with the append of the way back left out
AddBoth_OneWay(graph, p1, p2, travel_time, mode) ==
    GraphAppend(graph, p1, <<p2, travel_time, mode>>)

\* the two appends of one connection
AddBoth(graph, p1, p2, travel_time, mode) ==
    GraphAppend(GraphAppend(graph, p1, <<p2, travel_time, mode>>),
                p2, <<p1, travel_time, mode>>)

\* d[k] = v on a dict
DictSet(d, k, v) == IF k \in DOMAIN d THEN [d EXCEPT ![k] = v] ELSE d @@ (k :> v)

EmptyDict == <<>>

\* CollectLocations with the ice highway test made for every record, not
\* only for the first record of a name
RECURSIVE CollectLocations_TagEveryRow(_, _)
CollectLocations_TagEveryRow(df, acc) ==
    IF df = <<>> THEN acc
    ELSE LET row == Head(df)
             location == row.Location
             coord == <<row.X, row.Z>>
             fresh == location \notin DOMAIN acc.name_to_coord
         IN  CollectLocations_TagEveryRow(Tail(df),
                [names |-> IF fresh THEN Append(acc.names, location) ELSE acc.names,
                 name_to_coord |-> IF fresh
                                   THEN DictSet(acc.name_to_coord, location, coord)
                                   ELSE acc.name_to_coord,
                 owner_lookup |-> IF fresh
                                  THEN DictSet(acc.owner_lookup, location, row.Owner)
                                  ELSE acc.owner_lookup,
                 types_lookup |-> IF fresh
                                  THEN DictSet(acc.types_lookup, coord, row.Type)
                                  ELSE acc.types_lookup,
                 ice_highways |->
                    IF StrIn(Str_IceHighway, row.Type)
                    THEN Append(acc.ice_highways, coord)
                    ELSE acc.ice_highways])

\* first loop: every location, first record of a name wins
RECURSIVE CollectLocations(_, _)
CollectLocations(df, acc) ==
    IF df = <<>> THEN acc
    ELSE LET row == Head(df)
             location == row.Location
             coord == <<row.X, row.Z>>
         IN  IF location \in DOMAIN acc.name_to_coord
             THEN CollectLocations(Tail(df), acc)
             ELSE CollectLocations(Tail(df),
                    [names |-> Append(acc.names, location),
                     name_to_coord |-> DictSet(acc.name_to_coord, location, coord),
                     owner_lookup |-> DictSet(acc.owner_lookup, location, row.Owner),
                     types_lookup |-> DictSet(acc.types_lookup, coord, row.Type),
                     ice_highways |->
                        IF StrIn(Str_IceHighway, row.Type)
                        THEN Append(acc.ice_highways, coord)
                        ELSE acc.ice_highways])

NoLocations ==
    [names |-> <<>>, name_to_coord |-> EmptyDict, owner_lookup |-> EmptyDict,
     types_lookup |-> EmptyDict, ice_highways |-> <<>>]

\* the keys of df.groupby("Path"): sorted, empty cells dropped
RECURSIVE DistinctPaths(_, _)
DistinctPaths(df, seen) ==
    IF df = <<>> THEN <<>>
    ELSE LET path == Head(df).Path
         IN  IF path = NaN \/ path \in seen
             THEN DistinctPaths(Tail(df), seen)
             ELSE <<path>> \o DistinctPaths(Tail(df), seen \cup {path})

GroupKeys(df) == SortSeq(DistinctPaths(df, {}), StrLess)

Group(df, path) == SelectSeq(df, LAMBDA row : row.Path = path)

\* AddRailConnections that skips only the groups of fewer than two records
RECURSIVE AddRailConnections_AtLeastTwo(_, _, _)
AddRailConnections_AtLeastTwo(df, keys, acc) ==
    IF keys = <<>> THEN acc
    ELSE LET path == Head(keys)
             group == SelectSeq(df, LAMBDA row : row.Path = path)
         IN  IF Len(group) < 2 \/ path = NaN
             THEN AddRailConnections_AtLeastTwo(df, Tail(keys), acc)
             ELSE LET p1 == <<group[1].X, group[1].Z>>
                      p2 == <<group[2].X, group[2].Z>>
                      travel_time == TravelTime(manhattan_distance(p1, p2), NormalSpeed)
                  IN  AddRailConnections_AtLeastTwo(df, Tail(keys),
                        [graph |->
                            GraphAppend(GraphAppend(acc.graph, p1,
                                                    <<p2, travel_time, "normal">>),
                                        p2, <<p1, travel_time, "normal">>),
                         coord_pair_to_path |->
                            DictSet(DictSet(acc.coord_pair_to_path, <<p1, p2>>, path),
                                    <<p2, p1>>, path)])

\* second loop: rail connections from paths
RECURSIVE AddRailConnections(_, _, _)
AddRailConnections(df, keys, acc) ==
    IF keys = <<>> THEN acc
    ELSE LET path == Head(keys)
             group == Group(df, path)
         IN  IF Len(group) # 2 \/ path = NaN
             THEN AddRailConnections(df, Tail(keys), acc)
             ELSE LET p1 == <<group[1].X, group[1].Z>>
                      p2 == <<group[2].X, group[2].Z>>
                      distance == manhattan_distance(p1, p2)
                      travel_time == TravelTime(distance, NormalSpeed)
                  IN  AddRailConnections(df, Tail(keys),
                        [graph |-> AddBoth(acc.graph, p1, p2, travel_time, "normal"),
                         coord_pair_to_path |->
                            DictSet(DictSet(acc.coord_pair_to_path, <<p1, p2>>, path),
                                    <<p2, p1>>, path)])

\* IndexPairs with the inner loop stopping after its first index
RECURSIVE IndexPairs_Adjacent(_, _, _)
IndexPairs_Adjacent(i, j, n) ==
    IF i >= n THEN <<>>
    ELSE <<<<i, i + 1>>>> \o IndexPairs_Adjacent(i + 1, i + 2, n)

\* the index pairs (i, j), i < j, of a double loop over range(n), 1-based
RECURSIVE IndexPairs(_, _, _)
IndexPairs(i, j, n) ==
    IF i >= n THEN <<>>
    ELSE IF j > n THEN IndexPairs(i + 1, i + 2, n)
    ELSE <<<<i, j>>>> \o IndexPairs(i, j + 1, n)

\* third and fourth loops: straight-line connections between all pairs
RECURSIVE AddPairConnections(_, _, _, _, _)
AddPairConnections(graph, coords, pairs, speed, mode) ==
    IF pairs = <<>> THEN graph
    ELSE LET p1 == coords[Head(pairs)[1]]
             p2 == coords[Head(pairs)[2]]
             distance == euclidean_distance(p1, p2)
             travel_time == TravelTime(distance, speed)
         IN  AddPairConnections(AddBoth(graph, p1, p2, travel_time, mode),
                                coords, Tail(pairs), speed, mode)

AddIceHighways(graph, ice_highways) ==
    AddPairConnections(graph, ice_highways,
                       IndexPairs(1, 2, Len(ice_highways)), IceSpeed, "ice")

\* AddWalking over the nodes that hold an edge already, not over all places
AddWalking_GraphNodes(graph, coords) ==
    LET nodes == SelectSeq(coords, LAMBDA p : p \in DOMAIN graph)
    IN  AddPairConnections(graph, nodes, IndexPairs(1, 2, Len(nodes)), WalkSpeed, "walk")

AddWalking(graph, coords) ==
    AddPairConnections(graph, coords, IndexPairs(1, 2, Len(coords)), WalkSpeed, "walk")

build_graph_from_excel(file, include_ice_highways) ==
    LET df == file
        locs == CollectLocations(df, NoLocations)
        rail == AddRailConnections(df, GroupKeys(df),
                    [graph |-> EmptyDict, coord_pair_to_path |-> EmptyDict])
        iced == IF include_ice_highways
                THEN AddIceHighways(rail.graph, locs.ice_highways)
                ELSE rail.graph
        coords == [i \in 1..Len(locs.names) |-> locs.name_to_coord[locs.names[i]]]
    IN  [graph |-> AddWalking(iced, coords),
         names |-> locs.names,
         name_to_coord |-> locs.name_to_coord,
         owner_lookup |-> locs.owner_lookup,
         types_lookup |-> locs.types_lookup,
         coord_pair_to_path |-> rail.coord_pair_to_path]

---------------------------------------------------------------------------
(* dijkstra *)

None == <<>>                    \* no trace; "not path" holds of it alone

ModeRank(mode) == CASE mode = "ice" -> 1 [] mode = "normal" -> 2 [] mode = "walk" -> 3

NodeLess(n1, n2) == n1[1] < n2[1] \/ (n1[1] = n2[1] /\ n1[2] < n2[2])

\* order of the elements of a trace: (node, time) at the odd places,
\* ("mode", mode) at the even ones
ElemLess(e1, e2) ==
    IF e1[1] = "mode"
    THEN ModeRank(e1[2]) < ModeRank(e2[2])
    ELSE NodeLess(e1[1], e2[1]) \/ (e1[1] = e2[1] /\ e1[2] < e2[2])

RECURSIVE PathLess(_, _)
PathLess(p1, p2) ==
    IF p2 = <<>> THEN FALSE
    ELSE IF p1 = <<>> THEN TRUE
    ELSE IF Head(p1) = Head(p2) THEN PathLess(Tail(p1), Tail(p2))
    ELSE ElemLess(Head(p1), Head(p2))

\* Python's order of the heap entries (time_so_far, node, path)
EntryLess(a, b) ==
    \/ a[1] < b[1]
    \/ a[1] = b[1] /\ NodeLess(a[2], b[2])
    \/ a[1] = b[1] /\ a[2] = b[2] /\ PathLess(a[3], b[3])

\* the entry heapq.heappop returns: the least of the queue
HeapMin(queue) == CHOOSE e \in queue : \A f \in queue : ~EntryLess(f, e)

\* Pushes with the edge's own time as the key, the time so far left out
Pushes_EdgeTime(graph, node, time_so_far, path, seen) ==
    LET edges == GraphGet(graph, node)
    IN  { <<edges[i][2], edges[i][1], Append(path, <<"mode", edges[i][3]>>)>> :
          i \in {k \in 1..Len(edges) : edges[k][1] \notin seen} }

\* the entries pushed for the neighbours of node that are not seen
Pushes(graph, node, time_so_far, path, seen) ==
    LET edges == GraphGet(graph, node)
    IN  { <<time_so_far + edges[i][2], edges[i][1],
            Append(path, <<"mode", edges[i][3]>>)>> :
          i \in {k \in 1..Len(edges) : edges[k][1] \notin seen} }

RECURSIVE DijkstraLoop(_, _, _, _)
DijkstraLoop(graph, goal, queue, seen) ==
    IF queue = {} THEN None
    ELSE LET top == HeapMin(queue)
             rest == queue \ {top}
             time_so_far == top[1]
             node == top[2]
         IN  IF node \in seen
             THEN DijkstraLoop(graph, goal, rest, seen)
             ELSE LET seen2 == seen \cup {node}
                      path == Append(top[3], <<node, time_so_far>>)
                  IN  IF node = goal
                      THEN path
                      ELSE DijkstraLoop(graph, goal,
                              rest \cup Pushes(graph, node, time_so_far, path, seen2),
                              seen2)

dijkstra(graph, start, goal) == DijkstraLoop(graph, goal, {<<0, start, <<>>>>}, {})

---------------------------------------------------------------------------
(* main: the session and the "Find Shortest Path" handler *)

\* the menu entry of a location: its name, with the owner when notable
DisplayName(name, owner) ==
    IF owner # <<>> /\ owner # Str_PublicLand /\ ~StrIn(Lower(owner), Lower(name))
    THEN name \o <<" ", "(">> \o owner \o <<")">>
    ELSE name

\* owner.lower() raises for a location whose owner cell is empty: NaN is a
\* float, and true in a condition
LoadFails(file) ==
    LET b == build_graph_from_excel(file, FALSE)
    IN  \E name \in DOMAIN b.owner_lookup : b.owner_lookup[name] = NaN

\* st.session_state.locations as the first run of main() sets it
SessionLocations(file) ==
    LET b == build_graph_from_excel(file, FALSE)
    IN  IF LoadFails(file) THEN <<>>
        ELSE SortSeq([i \in 1..Len(b.names) |->
                        DisplayName(b.names[i], b.owner_lookup[b.names[i]])],
                     StrLess)

extract_location_name(display_name) ==
    IF StrIn(<<" ", "(">>, display_name) /\ EndsWith(display_name, <<")">>)
    THEN SplitFirst(display_name, <<" ", "(">>)
    ELSE display_name

\* {v: k for k, v in name_to_coord.items()}
RECURSIVE CoordToName(_, _, _)
CoordToName(names, name_to_coord, acc) ==
    IF names = <<>> THEN acc
    ELSE CoordToName(Tail(names), name_to_coord,
                     DictSet(acc, name_to_coord[Head(names)], Head(names)))

\* coord_to_name.get(coord, str(coord))
NameOfCoord(coord_to_name, coord) ==
    IF coord \in DOMAIN coord_to_name THEN coord_to_name[coord] ELSE StrOfCoord(coord)

\* the known names one of which stands in for a name that is not known
PossibleMatches(name, names) ==
    SelectSeq(names, LAMBDA loc :
        StrIn(Lower(name), Lower(loc)) \/ StrIn(Lower(loc), Lower(name)))

\* MatchLocation that takes no other name for one that is not known
MatchLocation_Exact(name, b) ==
    [found |-> name \in DOMAIN b.name_to_coord, name |-> name]

\* the name the query runs with: [found, name]
MatchLocation(name, b) ==
    IF name \in DOMAIN b.name_to_coord
    THEN [found |-> TRUE, name |-> name]
    ELSE LET possible_matches == PossibleMatches(name, b.names)
         IN  IF possible_matches # <<>>
             THEN [found |-> TRUE, name |-> possible_matches[1]]
             ELSE [found |-> FALSE, name |-> name]

\* SegmentSpeed with the walking speed of the rail
SegmentSpeed_StaleWalk(mode) ==
    CASE mode = "normal" -> 8 [] mode = "ice" -> 72 [] mode = "walk" -> 8 [] OTHER -> 1

\* {"normal": 8, "ice": 72, "walk": 3}.get(mode, 1)
SegmentSpeed(mode) ==
    CASE mode = "normal" -> 8 [] mode = "ice" -> 72 [] mode = "walk" -> 3 [] OTHER -> 1

NoTotals == [total_time |-> 0, total_distance |-> 0, route_steps |-> <<>>,
             rail_paths |-> <<>>]

\* SegmentRangeStop one short
SegmentRangeStop_Short(path) == Len(path) - 3

\* the stop of  range(0, len(path) - 2, 2)
SegmentRangeStop(path) == Len(path) - 2

\* the loop  for i in range(0, len(path) - 2, 2)  from index i on (0-based).
\* Distances are held in 1/Ticks of a block: segment ticks times speed.
RECURSIVE ProcessSegments(_, _, _, _, _)
ProcessSegments(path, i, b, coord_to_name, acc) ==
    IF i >= SegmentRangeStop(path) THEN acc
    ELSE IF i + 2 >= Len(path) THEN acc
    ELSE LET coord == path[i + 1][1]
             mode == path[i + 2][2]
             next_coord == path[i + 3][1]
             next_time == path[i + 3][2]
             segment_time == next_time - path[i + 1][2]
             distance == segment_time * SegmentSpeed(mode)
             next_name == NameOfCoord(coord_to_name, next_coord)
             key == <<coord, next_coord>>
             named == mode = "normal" /\ key \in DOMAIN b.coord_pair_to_path
         IN  ProcessSegments(path, i + 2, b, coord_to_name,
                [total_time |-> next_time,
                 total_distance |-> acc.total_distance + distance,
                 route_steps |-> Append(acc.route_steps,
                    [coord |-> coord, next_coord |-> next_coord, mode |-> mode,
                     time |-> segment_time, distance |-> distance,
                     current_name |-> NameOfCoord(coord_to_name, coord),
                     next_name |-> next_name,
                     next_owner |-> IF next_name \in DOMAIN b.owner_lookup
                                    THEN b.owner_lookup[next_name]
                                    ELSE Str_Unknown]),
                 rail_paths |-> IF named
                                THEN Append(acc.rail_paths, b.coord_pair_to_path[key])
                                ELSE acc.rail_paths])

NoResults ==
    [path_found |-> FALSE, origin_name |-> <<>>, dest_name |-> <<>>,
     total_time |-> 0, total_distance |-> 0, route_steps |-> <<>>, rail_paths |-> <<>>]

\* the locals of a run of main() that rebuilt the graph; qo and qd are the
\* names taken from the two menu entries, o and d the names the run went
\* on with
Locals(file, include, b, queried, qo, qd, o, d, searched, start, end, path) ==
    [df |-> file, include_ice_highways |-> include, built |-> b,
     coord_to_name |-> CoordToName(b.names, b.name_to_coord, EmptyDict),
     queried |-> queried, query_origin |-> qo, query_dest |-> qd,
     origin_name |-> o, dest_name |-> d, searched |-> searched,
     start |-> start, end |-> end, path |-> path]

NoPoint == <<>>

MenuOptions == {<<>>} \cup {locations[i] : i \in 1..Len(locations)}

Init ==
    /\ rows \in Datasets
    /\ locations = SessionLocations(rows)
    /\ route_results = NoResults
    /\ outcome = IF LoadFails(rows) THEN "load_error" ELSE "loaded"
    /\ run = Locals(rows, FALSE, build_graph_from_excel(rows, FALSE), FALSE,
                    <<>>, <<>>, <<>>, <<>>, FALSE, NoPoint, NoPoint, None)

\* lines 235-338 of main(): what a run of the handler with two different
\* menu entries reports, keeps in its locals and stores in the session
FindRoute(file, stored, origin, destination, include_ice_highways) ==
    LET b == build_graph_from_excel(file, include_ice_highways)
        qo == extract_location_name(origin)
        qd == extract_location_name(destination)
        o == MatchLocation(qo, b)
        d == MatchLocation(qd, b)
    IN  IF ~o.found
        THEN [outcome |-> "origin_not_found", route_results |-> stored,
              run |-> Locals(file, include_ice_highways, b, TRUE, qo, qd, o.name, qd,
                             FALSE, NoPoint, NoPoint, None)]
        ELSE IF ~d.found
        THEN [outcome |-> "dest_not_found", route_results |-> stored,
              run |-> Locals(file, include_ice_highways, b, TRUE, qo, qd, o.name,
                             d.name, FALSE, NoPoint, NoPoint, None)]
        ELSE LET start == b.name_to_coord[o.name]
                 end == b.name_to_coord[d.name]
                 path == dijkstra(b.graph, start, end)
                 loc == Locals(file, include_ice_highways, b, TRUE, qo, qd, o.name,
                               d.name, TRUE, start, end, path)
                 tot == ProcessSegments(path, 0, b, loc.coord_to_name, NoTotals)
             IN  IF path = None
                 THEN [outcome |-> "no_path", route_results |-> NoResults, run |-> loc]
                 ELSE IF \E k \in 1..Len(tot.route_steps) :
                            tot.route_steps[k].next_owner = NaN
                 THEN \* next_owner.lower() raises; the handler clears the route
                      [outcome |-> "error", route_results |-> NoResults, run |-> loc]
                 ELSE [outcome |-> "found", run |-> loc,
                       route_results |->
                          [path_found |-> TRUE, origin_name |-> o.name,
                           dest_name |-> d.name,
                           total_time |-> tot.total_time,
                           total_distance |-> tot.total_distance,
                           route_steps |-> tot.route_steps,
                           rail_paths |-> tot.rail_paths]]

\* "Find Shortest Path" with two different menu entries
FindShortestPath(origin, destination, include_ice_highways) ==
    /\ origin # destination
    /\ (origin # <<>> /\ destination # <<>>) \/ route_results.path_found
    /\ \E r \in {FindRoute(rows, route_results, origin, destination,
                           include_ice_highways)} :
          /\ outcome' = r.outcome
          /\ run' = r.run
          /\ route_results' = r.route_results
    /\ UNCHANGED <<rows, locations>>

\* the locals of a run of main() that did not rebuild the graph
NoRun ==
    [df |-> <<>>, include_ice_highways |-> FALSE,
     built |-> build_graph_from_excel(<<>>, FALSE), coord_to_name |-> EmptyDict,
     queried |-> FALSE, query_origin |-> <<>>, query_dest |-> <<>>,
     origin_name |-> <<>>, dest_name |-> <<>>, searched |-> FALSE,
     start |-> NoPoint, end |-> NoPoint, path |-> None]

\* "Find Shortest Path" with the same entry chosen twice: a warning
SameOriginDestination(origin) ==
    /\ origin # <<>> \/ route_results.path_found
    /\ outcome' = "same"
    /\ run' = NoRun
    /\ UNCHANGED <<rows, locations, route_results>>

\* "Find Shortest Path" with an entry missing and no route on display
MissingSelection(origin, destination) ==
    /\ origin = <<>> \/ destination = <<>>
    /\ ~route_results.path_found
    /\ outcome' = "select_both"
    /\ run' = NoRun
    /\ route_results' = NoResults
    /\ UNCHANGED <<rows, locations>>

\* the dataset is edited on disk between two runs: a dataset of MaxRows
\* records loses its last record
DatasetRowRemoved ==
    /\ Len(rows) = MaxRows
    /\ rows' = SubSeq(rows, 1, Len(rows) - 1)
    /\ UNCHANGED <<locations, route_results, outcome, run>>

Next ==
    \/ \E origin \in MenuOptions, destination \in MenuOptions, ice \in BOOLEAN :
          FindShortestPath(origin, destination, ice)
    \/ \E origin \in MenuOptions : SameOriginDestination(origin)
    \/ \E origin \in MenuOptions, destination \in MenuOptions :
          MissingSelection(origin, destination)
    \/ DatasetRowRemoved

Spec == Init /\ [][Next]_vars

---------------------------------------------------------------------------
(* What the claims are stated with: the dataset as the last run read it,  *)
(* computed from the records and not from the graph builder.              *)

Range(seq) == {seq[i] : i \in 1..Len(seq)}

Last(seq) == seq[Len(seq)]

\* the known Location names of a dataset
KnownNames(df) == {df[i].Location : i \in 1..Len(df)}

\* the record that decides a Location: the first of its name
FirstRecord(df, name) == df[Min({i \in 1..Len(df) : df[i].Location = name})]

\* the Point of a known Location
PointOf(df, name) == <<FirstRecord(df, name).X, FirstRecord(df, name).Z>>

\* the known Locations whose type tag contains "Ice Highway"
TaggedNames(df) ==
    {name \in KnownNames(df) : StrIn(Str_IceHighway, FirstRecord(df, name).Type)}

\* the places (node, index) of the directed edges of a graph
EdgePlaces(graph) ==
    UNION { {<<u, i>> : i \in 1..Len(graph[u])} : u \in DOMAIN graph }

\* the directed edges of one mode
ModeEdges(graph, mode) ==
    {pl \in EdgePlaces(graph) : graph[pl[1]][pl[2]][3] = mode}

\* whether the graph holds an edge from p to q of the mode and travel time
HasEdge(graph, p, q, travel_time, mode) ==
    p \in DOMAIN graph /\ <<q, travel_time, mode>> \in Range(graph[p])

GraphNodes(graph) ==
    DOMAIN graph \cup {graph[pl[1]][pl[2]][1] : pl \in EdgePlaces(graph)}

\* the total times of the walks of at most k edges from start, per end node
RECURSIVE WalkTimes(_, _, _, _)
WalkTimes(graph, nodes, start, k) ==
    IF k = 0
    THEN [v \in nodes |-> IF v = start THEN {0} ELSE {}]
    ELSE LET prev == WalkTimes(graph, nodes, start, k - 1)
         IN  [v \in nodes |->
                prev[v] \cup
                UNION { {t + graph[pl[1]][pl[2]][2] : t \in prev[pl[1]]} :
                        pl \in {q \in EdgePlaces(graph) : graph[q[1]][q[2]][1] = v} }]

\* the least total travel time over all paths from start to goal: no
\* travel time is negative, so paths of fewer edges than nodes suffice
LeastTime(graph, start, goal) ==
    LET nodes == GraphNodes(graph) \cup {start, goal}
    IN  Min(WalkTimes(graph, nodes, start, Cardinality(nodes) - 1)[goal])

Reachable(graph, start, goal) ==
    LET nodes == GraphNodes(graph) \cup {start, goal}
    IN  WalkTimes(graph, nodes, start, Cardinality(nodes) - 1)[goal] # {}

\* the modes of a trace, hop by hop
TraceModes(path) == [k \in 1..((Len(path) - 1) \div 2) |-> path[2 * k][2]]

\* the number of hops of a trace
Hops(path) == (Len(path) + 1) \div 2

\* hop k of a trace, counted from 1: (Point, cumulative time)
Hop(path, k) == path[2 * k - 1]

---------------------------------------------------------------------------
(* C1: the trace dijkstra returns ends at the goal, and its cumulative    *)
(* time is the least total travel time over all paths of the graph from   *)
(* start to goal.                                                         *)
C1_LeastTotalTime ==
    run.searched =>
        /\ run.path # None
        /\ Last(run.path)[1] = run.end
        /\ Last(run.path)[2] = LeastTime(run.built.graph, run.start, run.end)

\* the example: H and hm joined by the rail R1, a third place d; the route
\* is the single rail hop of 8/8 s, the walk of 8/3 s is also in the graph
C1_Witness ==
    /\ run.searched
    /\ Len(run.built.names) = 3
    /\ run.path = << <<(<<0, 0>>), 0>>, <<"mode", "normal">>, <<(<<8, 0>>), Ticks>> >>
    /\ HasEdge(run.built.graph, <<0, 0>>, <<8, 0>>, TravelTime(8, WalkSpeed), "walk")

(* C2: a search between two known Locations returns a trace, never None,  *)
(* with the ice highways in or out.                                       *)
C2_AlwaysAPath ==
    /\ outcome # "no_path"
    /\ (run.queried /\ run.origin_name \in KnownNames(run.df)
                    /\ run.dest_name \in KnownNames(run.df))
          => (run.searched /\ run.path # None /\ Last(run.path)[1] = run.end)

\* ice highways disabled, both ends tagged ice highway and on no rail: the
\* route is the walk
C2_Witness ==
    /\ run.searched /\ outcome = "found"
    /\ ~run.include_ice_highways
    /\ {run.origin_name, run.dest_name} \subseteq TaggedNames(run.df)
    /\ run.start # run.end
    /\ ModeEdges(run.built.graph, "normal") = {}
    /\ TraceModes(run.path) = <<"walk">>

(* C3: the total time of the route from A to B equals the total time of   *)
(* the route from B to A, for the same records and the same flag.         *)
C3_Symmetric ==
    (run.searched /\ outcome = "found") =>
        LET back == FindRoute(run.df, NoResults, run.dest_name, run.origin_name,
                              run.include_ice_highways)
        IN  /\ back.outcome = "found"
            /\ back.route_results.total_time = route_results.total_time

\* a route of two hops by different modes, whose way back is the reverse
C3_Witness ==
    /\ run.searched /\ outcome = "found"
    /\ TraceModes(run.path) = <<"normal", "walk">>
    /\ route_results.total_time > 0

C5_IceEdges ==
    LET graph == run.built.graph
        tagged == {PointOf(run.df, name) : name \in TaggedNames(run.df)}
        k == Cardinality(TaggedNames(run.df))
    IN  /\ \A pl \in ModeEdges(graph, "ice") :
              pl[1] \in tagged /\ graph[pl[1]][pl[2]][1] \in tagged
        /\ Cardinality(ModeEdges(graph, "ice")) =
              IF run.include_ice_highways THEN k * (k - 1) ELSE 0

\* ice highways included, three tagged Locations, six "ice" edges
C5_Witness ==
    /\ run.include_ice_highways
    /\ Cardinality(TaggedNames(run.df)) = 3
    /\ Cardinality(ModeEdges(run.built.graph, "ice")) = 6

\* the path names of a dataset, the empty cell among them when it occurs
PathCellsOf(df) == {df[i].Path : i \in 1..Len(df)}

\* the indices of the records of a path grouping
MembersOf(df, path) == {i \in 1..Len(df) : df[i].Path = path}

\* the groupings of exactly two members and a name
ValidPaths(df) ==
    {path \in PathCellsOf(df) : path # NaN /\ Cardinality(MembersOf(df, path)) = 2}

\* the Points of the first and of the second member of a grouping of two
EndPoints(df, path) ==
    LET i == Min(MembersOf(df, path))
        j == Min(MembersOf(df, path) \ {i})
    IN  << <<df[i].X, df[i].Z>>, <<df[j].X, df[j].Z>> >>

(* C6: a path grouping of other than two members, or without a name,      *)
(* gives no "normal" edge and no entry of coord_pair_to_path; a grouping   *)
(* of two members and a name gives one "normal" edge in each direction     *)
(* and an entry under (p1, p2) and under (p2, p1).                         *)
C6_RailGroupings ==
    LET graph == run.built.graph
        names == run.built.coord_pair_to_path
        valid == ValidPaths(run.df)
    IN  /\ Cardinality(ModeEdges(graph, "normal")) = 2 * Cardinality(valid)
        /\ \A path \in valid :
              LET p1 == EndPoints(run.df, path)[1]
                  p2 == EndPoints(run.df, path)[2]
                  travel_time == TravelTime(manhattan_distance(p1, p2), NormalSpeed)
              IN  /\ HasEdge(graph, p1, p2, travel_time, "normal")
                  /\ HasEdge(graph, p2, p1, travel_time, "normal")
                  /\ {<<p1, p2>>, <<p2, p1>>} \subseteq DOMAIN names
        /\ \A key \in DOMAIN names :
              /\ names[key] \in valid
              /\ key \in {EndPoints(run.df, names[key]),
                          <<EndPoints(run.df, names[key])[2],
                            EndPoints(run.df, names[key])[1]>>}

\* a grouping of three members: no rail edge and no entry
C6_Witness ==
    /\ Len(run.df) = 3
    /\ \A i \in 1..3 : run.df[i].Path = Str_R1
    /\ Cardinality(KnownNames(run.df)) = 3
    /\ ModeEdges(run.built.graph, "normal") = {}
    /\ DOMAIN run.built.coord_pair_to_path = {}
    /\ run.queried

(* C7: name_to_coord and coord_to_name are inverse to each other: for     *)
(* every known Location name n, coord_to_name[name_to_coord[n]] = n.       *)
C7_InverseLookups ==
    \A name \in DOMAIN run.built.name_to_coord :
        /\ run.built.name_to_coord[name] \in DOMAIN run.coord_to_name
        /\ run.coord_to_name[run.built.name_to_coord[name]] = name

NotFound == {"origin_not_found", "dest_not_found"}

(* C8 as claimed: a query whose origin or destination name is not a known *)
(* Location name ends in a not-found outcome, and no search is run.        *)
C8_UnknownNameNotFound ==
    (/\ run.queried
     /\ \/ run.query_origin \notin KnownNames(run.df)
        \/ run.query_dest \notin KnownNames(run.df))
        => (outcome \in NotFound /\ ~run.searched)

\* the known names that contain the name, or that it contains, ignoring case
Resembling(df, name) ==
    {loc \in KnownNames(df) :
        StrIn(Lower(name), Lower(loc)) \/ StrIn(Lower(loc), Lower(name))}

\* the index of the first record of a known name
FirstIndex(df, name) == Min({i \in 1..Len(df) : df[i].Location = name})

\* the known names a query name stands for: itself when known, else the
\* resembling name that comes first in the dataset, else none
StandsFor(df, name) ==
    IF name \in KnownNames(df) THEN {name}
    ELSE {loc \in Resembling(df, name) :
            \A other \in Resembling(df, name) : FirstIndex(df, loc) <= FirstIndex(df, other)}

\* what C8 as amended says of the last run
C8_Resolved ==
    run.queried =>
        LET os == StandsFor(run.df, run.query_origin)
            ds == StandsFor(run.df, run.query_dest)
        IN  IF os = {} THEN outcome = "origin_not_found" /\ ~run.searched
            ELSE IF ds = {} THEN outcome = "dest_not_found" /\ ~run.searched
            ELSE /\ run.searched /\ outcome = "found"
                 /\ os = {run.origin_name} /\ ds = {run.dest_name}
                 /\ run.start = PointOf(run.df, run.origin_name)
                 /\ run.end = PointOf(run.df, run.dest_name)
                 /\ route_results.origin_name = run.origin_name
                 /\ route_results.dest_name = run.dest_name

(* C8 as amended: a query whose origin or destination name is not a known *)
(* Location name ends in a not-found outcome, with no search run and the   *)
(* stored route left as it was, only when no known name contains it or is  *)
(* contained in it, ignoring case; otherwise the first such known name in  *)
(* dataset order takes its place, and the search runs and a route is       *)
(* stored for that Location.                                               *)
C8_UnknownNameResolved ==
    /\ []C8_Resolved
    /\ [][(run'.queried /\ ~run'.searched) => route_results' = route_results]_vars

\* a destination that no known name resembles: not found, and the route
\* found before stays stored
C8_Witness ==
    /\ outcome = "dest_not_found"
    /\ run.queried /\ ~run.searched
    /\ run.query_dest \notin KnownNames(run.df)
    /\ run.query_origin \in KnownNames(run.df)
    /\ route_results.path_found

\* the distance build_graph_from_excel uses for an edge of a mode
ModeDistance(mode, p1, p2) ==
    IF mode = "normal" THEN manhattan_distance(p1, p2) ELSE euclidean_distance(p1, p2)

(* C9: every segment rebuilt from the trace has the distance (elapsed     *)
(* time times the speed of its mode) that graph construction used for an   *)
(* edge of that mode between its two Points, and its mode and elapsed time *)
(* are those of an edge of the graph between the two hops.                 *)
C9_SegmentDistances ==
    (run.searched /\ outcome = "found") =>
        \A k \in 1..Len(route_results.route_steps) :
            LET step == route_results.route_steps[k]
            IN  /\ step.coord = Hop(run.path, k)[1]
                /\ step.next_coord = Hop(run.path, k + 1)[1]
                /\ step.mode = run.path[2 * k][2]
                /\ step.mode \in Modes
                /\ step.distance = Ticks * ModeDistance(step.mode, step.coord, step.next_coord)
                /\ HasEdge(run.built.graph, step.coord, step.next_coord, step.time, step.mode)

\* a rail segment between Points whose grid distance, 14, is not their
\* straight-line distance, 10
C9_Witness ==
    /\ run.searched /\ outcome = "found"
    /\ \E k \in 1..Len(route_results.route_steps) :
          /\ route_results.route_steps[k].mode = "normal"
          /\ route_results.route_steps[k].distance = 14 * Ticks
          /\ euclidean_distance(route_results.route_steps[k].coord,
                                route_results.route_steps[k].next_coord) = 10

RECURSIVE SumTimes(_)
SumTimes(steps) == IF steps = <<>> THEN 0 ELSE Head(steps).time + SumTimes(Tail(steps))

(* C10: a trace of n hops gives n-1 segments, one for each pair of hops   *)
(* in order, the pair that ends at the destination among them; the total   *)
(* time is the cumulative time of the last hop and the sum of the          *)
(* segments' times; a trace of one hop gives no segment and zero totals.   *)
C10_OneSegmentPerHopPair ==
    (run.searched /\ outcome = "found") =>
        LET n == Hops(run.path)
            steps == route_results.route_steps
        IN  /\ Len(run.path) = 2 * n - 1
            /\ n >= 1
            /\ Len(steps) = n - 1
            /\ \A k \in 1..Len(steps) :
                  /\ steps[k].coord = Hop(run.path, k)[1]
                  /\ steps[k].next_coord = Hop(run.path, k + 1)[1]
                  /\ steps[k].time = Hop(run.path, k + 1)[2] - Hop(run.path, k)[2]
            /\ n >= 2 => steps[n - 1].next_coord = run.end
            /\ route_results.total_time = Last(run.path)[2]
            /\ route_results.total_time = SumTimes(steps)
            /\ n = 1 => (route_results.total_time = 0 /\ route_results.total_distance = 0)

\* a trace of three hops and its two segments
C10_Witness ==
    /\ run.searched /\ outcome = "found"
    /\ Hops(run.path) = 3
    /\ Len(route_results.route_steps) = 2
    /\ route_results.route_steps[2].next_coord = run.end

\* the Points name_to_coord records for the known Locations
KnownPoints(b) == {b.name_to_coord[name] : name \in DOMAIN b.name_to_coord}

(* C11: every Point that is a node of the graph or the target of an edge  *)
(* is the Point name_to_coord records for some known Location, also when   *)
(* several records carry the same Location name; hence every hop of a      *)
(* trace has a Location name in coord_to_name.                             *)
C11_GraphPointsKnown ==
    /\ GraphNodes(run.built.graph) \subseteq KnownPoints(run.built)
    /\ run.searched =>
          \A k \in 1..Hops(run.path) : Hop(run.path, k)[1] \in DOMAIN run.coord_to_name

===========================================================================
